---- MODULE Spec2Model ----
(***************************************************************************)
(* Radiobot (src/main.py): the lifecycle controller and input dispatcher   *)
(* of an internet-radio appliance.                                         *)
(*                                                                         *)
(* Two execution contexts exist.  The main thread runs main(): it          *)
(* registers the SIGTERM handler, runs init_radiobot() and then the        *)
(* foreground loop; Python runs signal handlers (sigterm_callback, the     *)
(* default SIGINT handler raising KeyboardInterrupt) in this thread, on    *)
(* top of whatever frame is executing.  The RPi.GPIO callback thread runs  *)
(* the five button callbacks, one at a time.                               *)
(*                                                                         *)
(* Time is counted in units of 200 ms; the clock is read by the volume    *)
(* callbacks only.                                                          *)
(***************************************************************************)
EXTENDS Integers, Sequences, FiniteSets, TLC

\* ------------------------------------------------------------- bounds
MaxTime == 5          \* the clock stops advancing here
MaxInputs == 3        \* asynchronous inputs delivered: edges, SIGTERM, SIGINT
MaxVolume == 1        \* configuration: max_volume, in volume steps
NumStations == 2      \* configuration: length of the station catalog

\* ------------------------------------------------- program constants
W == 2                \* double-press window: 0.4 s
StartTime == 3        \* time.time() at program start (far from the epoch 0)
VOLUME_UP_PIN == 27
VOLUME_DOWN_PIN == 23
NEXT_PIN == 24
PREVIOUS_PIN == 25
HALT_PIN == 4

VARIABLES
  mainPc,          \* position of main() / init_radiobot() in the main thread
  mainStack,       \* shutdown runs nested in the main thread (ids, top last)
  proc,            \* "running", "exit0", "exit2", "crashed", "killed"
  exc,             \* the uncaught exception that ended the main thread
  sigRegistered,   \* signal.signal(SIGTERM, sigterm_callback) was called
  armed,           \* channels with edge detection registered
  displayManager,  \* global: FALSE is None
  configLoader,    \* global: FALSE is None
  radioManager,    \* global: FALSE is None
  playerManager,   \* global: FALSE is None
  ip_timer,        \* global: time of the last volume-down callback
  now,             \* the last value time.time() returned
  volume,          \* RadioManager: current volume
  station,         \* RadioManager: current radio indice
  gpioPc,          \* callback thread: "idle" or the callback in flight
  gpioRun,         \* callback thread: id of the halt callback's run, or 0
  runs,            \* every entry of a shutdown function so far
  saved,           \* the calls of configLoader.save_settings, in order
  terminated,      \* number of displayManager.terminate requests
  powerOff,        \* number of 'shutdown -h now' commands issued
  trace,           \* startup steps done, in order
  lastCall,        \* last call made by the foreground loop
  last,            \* outcome of the last completed button callback: the
                   \* handler, whether a volume-down was less than W old,
                   \* the call made, whether the address lookup succeeded,
                   \* whether a display request for the address was sent
  lastDown,        \* time of the most recent volume-down event, -1 if none
  nInputs          \* asynchronous inputs delivered so far

vars == <<mainPc, mainStack, proc, exc, sigRegistered, armed, displayManager,
          configLoader, radioManager, playerManager, ip_timer, now, volume,
          station, gpioPc, gpioRun, runs, saved, terminated, powerOff, trace,
          lastCall, last, lastDown, nInputs>>

\* Groups of variables, for UNCHANGED.
globalsV == <<displayManager, configLoader, radioManager, playerManager>>
radioV == <<volume, station>>
gpioV == <<gpioPc, gpioRun>>
histV == <<trace, lastCall, last, lastDown>>
countV == <<nInputs>>

\* ------------------------------------------------ shutdown functions

\* clean_exit() persisting the settings before the display is terminated.
clean_exit_saves_first ==
  <<"cleanup", "readvol", "readidx", "save", "lcd", "exit">>

\* clean_exit(): the statements, in order.
clean_exit ==
  <<"cleanup", "lcd", "readvol", "readidx", "save", "exit">>

\* clean_exit_and_shutdown(): the statements, in order.
clean_exit_and_shutdown ==
  <<"cleanup", "lcd", "readvol", "readidx", "save", "poweroff", "exit">>

\* halt_callback calls clean_exit_and_shutdown.
halt_callback == clean_exit_and_shutdown

\* sigterm_callback calls clean_exit.
sigterm_callback == clean_exit

\* main()'s except KeyboardInterrupt clause calls clean_exit.
except_KeyboardInterrupt == clean_exit

Steps(trig) ==
  CASE trig = "halt" -> halt_callback
    [] trig = "sigterm" -> sigterm_callback
    [] OTHER -> except_KeyboardInterrupt

NewRun(trig) ==
  [trig |-> trig, pos |-> 1, done |-> <<>>, vol |-> -1, idx |-> -1,
   st |-> "active"]

\* The run the thread is executing, 0 if none.
Cur(th) ==
  IF th = "main"
    THEN IF mainStack = <<>> THEN 0 ELSE mainStack[Len(mainStack)]
    ELSE gpioRun

CurStep(th) == Steps(runs[Cur(th)].trig)[runs[Cur(th)].pos]

InRun(th, step) ==
  /\ proc = "running"
  /\ Cur(th) # 0
  /\ runs[Cur(th)].st = "active"
  /\ CurStep(th) = step

\* The run after its current statement has completed.
Advance(r, f) ==
  [f EXCEPT !.done = Append(@, Steps(r.trig)[r.pos]), !.pos = @ + 1]

\* An exception other than SystemExit leaves the shutdown function.  In the
\* main thread nothing catches it (main() catches KeyboardInterrupt only):
\* the interpreter prints the traceback and the process ends.  In the
\* callback thread RPi.GPIO prints it and goes on waiting for edges.
\* e is "raised" for a failure of the step itself and "AttributeError" for
\* a method called on a global that is still None.
Raise(th, e) ==
  IF th = "main"
    THEN /\ proc' = "crashed"
         /\ exc' = e
         /\ runs' = [i \in DOMAIN runs |->
                       IF i = Cur(th)
                         THEN [runs[i] EXCEPT !.st = e]
                         ELSE IF \E k \in DOMAIN mainStack : mainStack[k] = i
                                THEN [runs[i] EXCEPT !.st = "aborted"]
                                ELSE runs[i]]
         /\ UNCHANGED <<mainStack, gpioV>>
    ELSE /\ runs' = [runs EXCEPT ![gpioRun].st = e]
         /\ gpioPc' = "idle"
         /\ gpioRun' = 0
         /\ UNCHANGED <<mainStack, proc, exc>>

Threads == {"main", "gpio"}


\* Everything a shutdown statement leaves alone besides what it names.
ShutFrame ==
  UNCHANGED <<mainPc, sigRegistered, globalsV, ip_timer, now, radioV, histV,
              countV>>

StepDone(th) == runs' = [runs EXCEPT ![Cur(th)] = Advance(runs[Cur(th)], @)]

\* GPIO.cleanup(): every channel is reset, edge detection included.
GPIO_cleanup(th) ==
  /\ InRun(th, "cleanup")
  /\ armed' = {}
  /\ StepDone(th)
  /\ UNCHANGED <<mainStack, proc, exc, gpioV, saved, terminated, powerOff>>
  /\ ShutFrame

\* GPIO.cleanup() raises (port-release failure).
GPIO_cleanup_raises(th) ==
  /\ InRun(th, "cleanup")
  /\ Raise(th, "raised")
  /\ UNCHANGED <<armed, saved, terminated, powerOff>>
  /\ ShutFrame

\* displayManager.on_thread(displayManager.terminate)
display_terminate(th) ==
  /\ InRun(th, "lcd")
  /\ displayManager
  /\ terminated' = terminated + 1
  /\ StepDone(th)
  /\ UNCHANGED <<mainStack, proc, exc, gpioV, armed, saved, powerOff>>
  /\ ShutFrame

\* The same statement raising: AttributeError when displayManager is still
\* None, else a failure of the display port.
display_terminate_raises(th) ==
  /\ InRun(th, "lcd")
  /\ Raise(th, IF displayManager THEN "raised" ELSE "AttributeError")
  /\ UNCHANGED <<armed, saved, terminated, powerOff>>
  /\ ShutFrame

\* radioManager.get_current_volume(), the first argument of save_settings.
get_current_volume(th) ==
  /\ InRun(th, "readvol")
  /\ configLoader /\ radioManager
  /\ runs' = [runs EXCEPT ![Cur(th)] = Advance(runs[Cur(th)], [@ EXCEPT !.vol = volume])]
  /\ UNCHANGED <<mainStack, proc, exc, gpioV, armed, saved, terminated, powerOff>>
  /\ ShutFrame

\* AttributeError: configLoader or radioManager is still None.
get_current_volume_raises(th) ==
  /\ InRun(th, "readvol")
  /\ ~(configLoader /\ radioManager)
  /\ Raise(th, "AttributeError")
  /\ UNCHANGED <<armed, saved, terminated, powerOff>>
  /\ ShutFrame

\* radioManager.get_current_radio_indice(), the second argument.
get_current_radio_indice(th) ==
  /\ InRun(th, "readidx")
  /\ runs' = [runs EXCEPT ![Cur(th)] = Advance(runs[Cur(th)], [@ EXCEPT !.idx = station])]
  /\ UNCHANGED <<mainStack, proc, exc, gpioV, armed, saved, terminated, powerOff>>
  /\ ShutFrame

\* configLoader.save_settings(volume, indice)
save_settings(th) ==
  /\ InRun(th, "save")
  /\ saved' = Append(saved, <<runs[Cur(th)].vol, runs[Cur(th)].idx>>)
  /\ StepDone(th)
  /\ UNCHANGED <<mainStack, proc, exc, gpioV, armed, terminated, powerOff>>
  /\ ShutFrame

\* save_settings raises (persistence failure).
save_settings_raises(th) ==
  /\ InRun(th, "save")
  /\ Raise(th, "raised")
  /\ UNCHANGED <<armed, saved, terminated, powerOff>>
  /\ ShutFrame

\* subprocess.call(['sudo', 'shutdown', '-h', 'now'])
shutdown_now(th) ==
  /\ InRun(th, "poweroff")
  /\ powerOff' = powerOff + 1
  /\ StepDone(th)
  /\ UNCHANGED <<mainStack, proc, exc, gpioV, armed, saved, terminated>>
  /\ ShutFrame

\* sys.exit(0): SystemExit is caught nowhere, the process ends with status 0
\* (in the callback thread through RPi.GPIO's PyErr_Print).
sys_exit(th) ==
  /\ InRun(th, "exit")
  /\ proc' = "exit0"
  /\ runs' = [runs EXCEPT ![Cur(th)] =
                [Advance(runs[Cur(th)], @) EXCEPT !.st = "exited"]]
  /\ UNCHANGED <<mainStack, exc, gpioV, armed, saved, terminated, powerOff>>
  /\ ShutFrame

ShutdownStep(th) ==
  \/ GPIO_cleanup(th)
  \/ GPIO_cleanup_raises(th)
  \/ display_terminate(th)
  \/ display_terminate_raises(th)
  \/ get_current_volume(th)
  \/ get_current_volume_raises(th)
  \/ get_current_radio_indice(th)
  \/ save_settings(th)
  \/ save_settings_raises(th)
  \/ shutdown_now(th)
  \/ sys_exit(th)


\* ------------------------------------------------------ RadioManager
\* (radioManager.py is not part of the sources: the operations are those of
\* the playback state machine, volume clamped and navigation circular.)

volume_up(v) == IF v + 1 > MaxVolume THEN MaxVolume ELSE v + 1

volume_down(v) == IF v - 1 < 0 THEN 0 ELSE v - 1

next(i) == (i + 1) % NumStations

previous(i) == (i + NumStations - 1) % NumStations

\* --------------------------------------------------------- main thread

\* The main thread executes main()'s own statements: no handler is running
\* on top of it.
MainAt(pc) ==
  /\ proc = "running"
  /\ mainStack = <<>>
  /\ mainPc = pc

MainFrame ==
  UNCHANGED <<mainStack, proc, exc, ip_timer, now, gpioV, runs, saved, terminated,
              powerOff, last, lastDown, countV>>

\* main(): signal.signal(signal.SIGTERM, sigterm_callback)
signal_signal ==
  /\ MainAt("start")
  /\ sigRegistered' = TRUE
  /\ mainPc' = "configure_GPIO"
  /\ UNCHANGED <<armed, globalsV, radioV, trace, lastCall>>
  /\ MainFrame

\* init_radiobot() starting the first station before set_as_ready().
init_radiobot_plays_first ==
  <<"configure_GPIO", "load_config", "DisplayManager", "PlayerManager",
    "RadioManager", "play_radio", "ready_low", "ready_sleep", "ready_arm">>

\* The order of init_radiobot()'s statements.
init_radiobot ==
  <<"configure_GPIO", "load_config", "DisplayManager", "PlayerManager",
    "RadioManager", "ready_low", "ready_sleep", "ready_arm", "play_radio">>

\* The statement after pc in init_radiobot(), then the foreground loop.
NextPc(pc) ==
  LET k == CHOOSE i \in DOMAIN init_radiobot : init_radiobot[i] = pc
  IN IF k = Len(init_radiobot) THEN "check_radio_info" ELSE init_radiobot[k + 1]

\* configure_GPIO(): the four buttons get their edge detection.
configure_GPIO ==
  /\ MainAt("configure_GPIO")
  /\ armed' = armed \cup {VOLUME_UP_PIN, VOLUME_DOWN_PIN, NEXT_PIN, PREVIOUS_PIN}
  /\ mainPc' = NextPc(mainPc)
  /\ trace' = Append(trace, "configure_GPIO")
  /\ UNCHANGED <<sigRegistered, globalsV, radioV, lastCall>>
  /\ MainFrame

\* ConfigLoader(config_file); parse_config_file() succeeds.
load_config ==
  /\ MainAt("load_config")
  /\ configLoader' = TRUE
  /\ mainPc' = NextPc(mainPc)
  /\ trace' = Append(trace, "load_config")
  /\ UNCHANGED <<sigRegistered, armed, displayManager, radioManager,
                 playerManager, radioV, lastCall>>
  /\ MainFrame

\* The configuration is invalid: sys.exit(2).
load_config_fails ==
  /\ MainAt("load_config")
  /\ proc' = "exit2"
  /\ UNCHANGED <<mainPc, mainStack, exc, sigRegistered, armed, globalsV, ip_timer,
                 now, radioV, gpioV, runs, saved, terminated, powerOff, histV,
                 countV>>

\* displayManager = DisplayManager(...); displayManager.start()
new_DisplayManager ==
  /\ MainAt("DisplayManager")
  /\ displayManager' = TRUE
  /\ mainPc' = NextPc(mainPc)
  /\ trace' = Append(trace, "DisplayManager")
  /\ UNCHANGED <<sigRegistered, armed, configLoader, radioManager,
                 playerManager, radioV, lastCall>>
  /\ MainFrame

\* playerManager = PlayerManager(configLoader.volume)
new_PlayerManager ==
  /\ MainAt("PlayerManager")
  /\ playerManager' = TRUE
  /\ mainPc' = NextPc(mainPc)
  /\ trace' = Append(trace, "PlayerManager")
  /\ UNCHANGED <<sigRegistered, armed, displayManager, configLoader,
                 radioManager, radioV, lastCall>>
  /\ MainFrame

\* radioManager = RadioManager(..., configLoader.volume, ...,
\* configLoader.radio_indice, ...): any persisted volume; the persisted
\* station is taken to be the first, the others are reached by navigation.
new_RadioManager ==
  /\ MainAt("RadioManager")
  /\ radioManager' = TRUE
  /\ \E v \in 0..MaxVolume : volume' = v
  /\ station' = 0
  /\ mainPc' = NextPc(mainPc)
  /\ trace' = Append(trace, "RadioManager")
  /\ UNCHANGED <<sigRegistered, armed, displayManager, configLoader,
                 playerManager, lastCall>>
  /\ MainFrame

\* set_as_ready(): GPIO.setup(4, OUT); GPIO.output(4, LOW)
ready_low ==
  /\ MainAt("ready_low")
  /\ mainPc' = NextPc(mainPc)
  /\ trace' = Append(trace, "ready")
  /\ UNCHANGED <<sigRegistered, armed, globalsV, radioV, lastCall>>
  /\ MainFrame

\* set_as_ready(): time.sleep(0.5)
ready_sleep ==
  /\ MainAt("ready_sleep")
  /\ mainPc' = NextPc(mainPc)
  /\ trace' = Append(trace, "settle")
  /\ UNCHANGED <<sigRegistered, armed, globalsV, radioV, lastCall>>
  /\ MainFrame

\* set_as_ready(): GPIO.setup(4, IN); add_event_detect(4, halt_callback)
ready_arm ==
  /\ MainAt("ready_arm")
  /\ armed' = armed \cup {HALT_PIN}
  /\ mainPc' = NextPc(mainPc)
  /\ trace' = Append(trace, "halt_armed")
  /\ UNCHANGED <<sigRegistered, globalsV, radioV, lastCall>>
  /\ MainFrame

\* radioManager.play_radio(): the first station is started.
play_radio ==
  /\ MainAt("play_radio")
  /\ mainPc' = NextPc(mainPc)
  /\ trace' = Append(trace, "play_radio")
  /\ UNCHANGED <<sigRegistered, armed, globalsV, radioV, lastCall>>
  /\ MainFrame

\* The statements of the foreground loop's try block.
LoopPcs == {"check_radio_info", "update_player"}

\* The loop polling the metadata again without refreshing the player.
check_radio_info_only ==
  /\ MainAt("check_radio_info")
  /\ mainPc' = "check_radio_info"
  /\ lastCall' = "check_radio_info"
  /\ UNCHANGED <<sigRegistered, armed, globalsV, radioV, trace>>
  /\ MainFrame

\* radioManager.check_radio_info()
check_radio_info ==
  /\ MainAt("check_radio_info")
  /\ mainPc' = "update_player"
  /\ lastCall' = "check_radio_info"
  /\ UNCHANGED <<sigRegistered, armed, globalsV, radioV, trace>>
  /\ MainFrame

\* playerManager.update_player(); time.sleep(0.05); the next iteration of
\* while True.
update_player ==
  /\ MainAt("update_player")
  /\ mainPc' = "check_radio_info"
  /\ lastCall' = "update_player"
  /\ UNCHANGED <<sigRegistered, armed, globalsV, radioV, trace>>
  /\ MainFrame

\* ------------------------------------------------------------- signals

AbortMainRuns ==
  [i \in DOMAIN runs |->
     IF \E k \in DOMAIN mainStack : mainStack[k] = i
       THEN [runs[i] EXCEPT !.st = "aborted"]
       ELSE runs[i]]

\* SIGTERM is delivered.  Once the handler is registered, Python runs
\* sigterm_callback in the main thread on top of the current frame; before
\* that the default action ends the process.
SIGTERM ==
  /\ proc = "running"
  /\ nInputs < MaxInputs
  /\ nInputs' = nInputs + 1
  /\ IF sigRegistered
       THEN /\ runs' = Append(runs, NewRun("sigterm"))
            /\ mainStack' = Append(mainStack, Len(runs) + 1)
            /\ proc' = proc
       ELSE /\ proc' = "killed"
            /\ UNCHANGED <<runs, mainStack>>
  /\ UNCHANGED <<mainPc, exc, sigRegistered, armed, globalsV, ip_timer, now,
                 radioV, gpioV, saved, terminated, powerOff, histV>>

\* SIGINT is delivered: KeyboardInterrupt is raised in the main thread.  It
\* unwinds every handler frame; main() catches it only inside the try block
\* of the foreground loop, whose except clause calls clean_exit().
KeyboardInterrupt ==
  /\ proc = "running"
  /\ nInputs < MaxInputs
  /\ nInputs' = nInputs + 1
  /\ IF mainPc \in LoopPcs
       THEN /\ runs' = Append(AbortMainRuns, NewRun("keyboard"))
            /\ mainStack' = <<Len(runs) + 1>>
            /\ mainPc' = "except"
            /\ UNCHANGED <<proc, exc>>
       ELSE /\ runs' = AbortMainRuns
            /\ proc' = "crashed"
            /\ exc' = "KeyboardInterrupt"
            /\ UNCHANGED <<mainStack, mainPc>>
  /\ UNCHANGED <<sigRegistered, armed, globalsV, ip_timer, now, radioV, gpioV,
                 saved, terminated, powerOff, histV>>

\* ----------------------------------------------------- callback thread

Callback(ch) ==
  CASE ch = VOLUME_UP_PIN -> "volume_up_callback"
    [] ch = VOLUME_DOWN_PIN -> "volume_down_callback"
    [] ch = NEXT_PIN -> "next_radio_callback"
    [] ch = PREVIOUS_PIN -> "previous_radio_callback"
    [] OTHER -> "halt_callback"

\* An edge on an armed channel: the callback thread enters the callback.
Edge(ch) ==
  /\ proc = "running"
  /\ gpioPc = "idle"
  /\ ch \in armed
  /\ nInputs < MaxInputs
  /\ nInputs' = nInputs + 1
  /\ gpioPc' = Callback(ch)
  /\ IF ch = HALT_PIN
       THEN /\ runs' = Append(runs, NewRun("halt"))
            /\ gpioRun' = Len(runs) + 1
       ELSE UNCHANGED <<runs, gpioRun>>
  /\ UNCHANGED <<mainPc, mainStack, proc, exc, sigRegistered, armed, globalsV,
                 ip_timer, now, radioV, saved, terminated, powerOff, histV>>

CallbackFrame ==
  UNCHANGED <<mainPc, mainStack, proc, exc, sigRegistered, armed, globalsV,
              gpioRun, runs, saved, terminated, powerOff, trace, lastCall,
              countV>>

\* time.time(): the clock never runs backwards.
time_time == now..MaxTime

\* volume_up_callback: the test of line 113.
IsGesture(t, timer) == t - timer < W

\* Whether a volume-down event happened less than W before time t.
DownWithin(t) == lastDown # -1 /\ t - lastDown < W

\* The gesture branch clearing ip_timer once the address has been handled.
volume_up_gesture_resets ==
  /\ proc = "running"
  /\ gpioPc = "volume_up_callback"
  /\ \E t \in time_time, lookup \in BOOLEAN :
       /\ IsGesture(t, ip_timer)
       /\ now' = t
       /\ last' = [h |-> "volume_up", within |-> DownWithin(t),
                   route |-> "gesture", lookupOk |-> lookup,
                   shown |-> lookup /\ displayManager]
  /\ ip_timer' = 0
  /\ gpioPc' = "idle"
  /\ UNCHANGED <<radioV, lastDown>>
  /\ CallbackFrame

\* The gesture branch falling back to radioManager.volume_up() when the
\* address lookup fails.
volume_up_gesture_falls_back ==
  /\ proc = "running"
  /\ gpioPc = "volume_up_callback"
  /\ \E t \in time_time, lookup \in BOOLEAN :
       /\ IsGesture(t, ip_timer)
       /\ now' = t
       /\ last' = [h |-> "volume_up", within |-> DownWithin(t),
                   route |-> "gesture", lookupOk |-> lookup,
                   shown |-> lookup /\ displayManager]
       /\ volume' = IF lookup \/ ~radioManager THEN volume ELSE volume_up(volume)
  /\ gpioPc' = "idle"
  /\ UNCHANGED <<ip_timer, station, lastDown>>
  /\ CallbackFrame

\* volume_up_callback, gesture branch: the address lookup and the display
\* request; whatever is raised is swallowed.
volume_up_gesture ==
  /\ proc = "running"
  /\ gpioPc = "volume_up_callback"
  /\ \E t \in time_time, lookup \in BOOLEAN :
       /\ IsGesture(t, ip_timer)
       /\ now' = t
       /\ last' = [h |-> "volume_up", within |-> DownWithin(t),
                   route |-> "gesture", lookupOk |-> lookup,
                   shown |-> lookup /\ displayManager]
  /\ gpioPc' = "idle"
  /\ UNCHANGED <<ip_timer, radioV, lastDown>>
  /\ CallbackFrame

\* volume_up_callback, else branch: radioManager.volume_up()
volume_up_else ==
  /\ proc = "running"
  /\ gpioPc = "volume_up_callback"
  /\ \E t \in time_time :
       /\ ~IsGesture(t, ip_timer)
       /\ now' = t
       /\ last' = [h |-> "volume_up", within |-> DownWithin(t),
                   route |-> IF radioManager THEN "volume_up" ELSE "raised",
                   lookupOk |-> FALSE, shown |-> FALSE]
  /\ volume' = IF radioManager THEN volume_up(volume) ELSE volume
  /\ gpioPc' = "idle"
  /\ UNCHANGED <<ip_timer, station, lastDown>>
  /\ CallbackFrame

\* volume_down_callback: ip_timer = time.time(); radioManager.volume_down()
volume_down_callback ==
  /\ proc = "running"
  /\ gpioPc = "volume_down_callback"
  /\ \E t \in time_time :
       /\ now' = t
       /\ ip_timer' = t
       /\ lastDown' = t
  /\ volume' = IF radioManager THEN volume_down(volume) ELSE volume
  /\ last' = [h |-> "volume_down", within |-> FALSE,
              route |-> IF radioManager THEN "volume_down" ELSE "raised",
              lookupOk |-> FALSE, shown |-> FALSE]
  /\ gpioPc' = "idle"
  /\ UNCHANGED station
  /\ CallbackFrame

\* next_radio_callback: radioManager.next()
next_radio_callback ==
  /\ proc = "running"
  /\ gpioPc = "next_radio_callback"
  /\ station' = IF radioManager THEN next(station) ELSE station
  /\ last' = [h |-> "next", within |-> FALSE,
              route |-> IF radioManager THEN "next" ELSE "raised",
              lookupOk |-> FALSE, shown |-> FALSE]
  /\ gpioPc' = "idle"
  /\ UNCHANGED <<ip_timer, now, volume, lastDown>>
  /\ CallbackFrame

\* previous_radio_callback: radioManager.previous()
previous_radio_callback ==
  /\ proc = "running"
  /\ gpioPc = "previous_radio_callback"
  /\ station' = IF radioManager THEN previous(station) ELSE station
  /\ last' = [h |-> "previous", within |-> FALSE,
              route |-> IF radioManager THEN "previous" ELSE "raised",
              lookupOk |-> FALSE, shown |-> FALSE]
  /\ gpioPc' = "idle"
  /\ UNCHANGED <<ip_timer, now, volume, lastDown>>
  /\ CallbackFrame

\* -------------------------------------------------------- specification

Init ==
  /\ mainPc = "start"
  /\ mainStack = <<>>
  /\ proc = "running"
  /\ exc = "none"
  /\ sigRegistered = FALSE
  /\ armed = {}
  /\ displayManager = FALSE
  /\ configLoader = FALSE
  /\ radioManager = FALSE
  /\ playerManager = FALSE
  /\ ip_timer = 0
  /\ now = StartTime
  /\ volume = 0
  /\ station = 0
  /\ gpioPc = "idle"
  /\ gpioRun = 0
  /\ runs = <<>>
  /\ saved = <<>>
  /\ terminated = 0
  /\ powerOff = 0
  /\ trace = <<>>
  /\ lastCall = "none"
  /\ last = [h |-> "none", within |-> FALSE, route |-> "none", lookupOk |-> FALSE, shown |-> FALSE]
  /\ lastDown = -1
  /\ nInputs = 0

Pins == {VOLUME_UP_PIN, VOLUME_DOWN_PIN, NEXT_PIN, PREVIOUS_PIN, HALT_PIN}

Next ==
  \/ signal_signal
  \/ configure_GPIO
  \/ load_config
  \/ load_config_fails
  \/ new_DisplayManager
  \/ new_PlayerManager
  \/ new_RadioManager
  \/ ready_low
  \/ ready_sleep
  \/ ready_arm
  \/ play_radio
  \/ check_radio_info
  \/ update_player
  \/ SIGTERM
  \/ KeyboardInterrupt
  \/ \E ch \in Pins : Edge(ch)
  \/ volume_up_gesture
  \/ volume_up_else
  \/ volume_down_callback
  \/ next_radio_callback
  \/ previous_radio_callback
  \/ \E th \in Threads : ShutdownStep(th)

Spec == Init /\ [][Next]_vars


\* ---------------------------------------------------------------- claims

Did(r, step) == \E k \in DOMAIN runs[r].done : runs[r].done[k] = step

IsPrefix(p, q) ==
  /\ Len(p) <= Len(q)
  /\ \A k \in DOMAIN p : p[k] = q[k]

\* The run is over: control has left the shutdown function.
Ended(r) == runs[r].st # "active"

\* C1: the shutdown sequence runs at most once in any execution, whatever
\* the triggers and their interleaving: save_settings is called once only.
C1_SavedOnce == Len(saved) <= 1

\* C2: a power-off is requested if and only if the shutdown was triggered by
\* the halt button: a run entered from SIGTERM or from the keyboard
\* interruption never issues it, a run entered from halt_callback always has
\* issued it by the time it is over.
C2_PowerOffIffHalt ==
  \A r \in DOMAIN runs :
    /\ runs[r].trig # "halt" => ~Did(r, "poweroff")
    /\ (runs[r].trig = "halt" /\ Ended(r)) => Did(r, "poweroff")

\* C3: a volume-up event takes the address-display branch if and only if
\* the most recent volume-down event is less than W old; in every other
\* case it makes one volume_up() call and no display request.
C3_GestureIffWithin ==
  last.h = "volume_up" =>
    /\ last.within <=> last.route = "gesture"
    /\ ~last.within => (last.route = "volume_up" /\ ~last.shown)

\* The order of the shutdown steps that C4 states.
ShutdownOrder(trig) ==
  IF trig = "halt"
    THEN <<"cleanup", "lcd", "readvol", "readidx", "save", "poweroff", "exit">>
    ELSE <<"cleanup", "lcd", "readvol", "readidx", "save", "exit">>

\* C4: in every run of the shutdown sequence, exit-only or power-off, the
\* steps done so far are in the order: interrupt release, display
\* terminate, persist {volume, station}, then power-off request or process
\* exit; no step is done before the ones it follows, and the effects are
\* there when the later step happens.
C4_ShutdownOrder ==
  /\ \A r \in DOMAIN runs : IsPrefix(runs[r].done, ShutdownOrder(runs[r].trig))
  /\ Len(saved) >= 1 => terminated >= 1
  /\ powerOff >= 1 => Len(saved) >= 1
  /\ proc = "exit0" => Len(saved) >= 1

C4_Witness ==
  \E r \in DOMAIN runs :
    /\ runs[r].trig = "halt"
    /\ runs[r].st = "exited"
    /\ powerOff = 1
    /\ Len(saved) = 1

\* What the run is there to reach: the power-off request for the halt
\* button, the end of the process for the other triggers.
ReachedEnd(r) ==
  IF runs[r].trig = "halt" THEN Did(r, "poweroff") ELSE proc # "running"

\* C5: a failure of a shutdown step never prevents the sequence from
\* completing: a run in which a step raised still reaches the process
\* termination or, for the halt button, the power-off request.
C5_FailureStillCompletes ==
  \A r \in DOMAIN runs : runs[r].st = "raised" => ReachedEnd(r)

\* C6: a SIGTERM delivered once the handler is registered, startup
\* included, runs the shutdown sequence to its end: display terminated,
\* settings persisted, process exit without power-off.  (Runs a failing step
\* or a keyboard interruption cut short are C5's and C7's matter.)
C6_SigtermCompletes ==
  \A r \in DOMAIN runs :
    (runs[r].trig = "sigterm" /\ runs[r].st \notin {"active", "raised", "aborted"})
      => /\ Did(r, "lcd")
         /\ Did(r, "save")
         /\ Did(r, "exit")
         /\ ~Did(r, "poweroff")

\* C7: a keyboard interruption raised at any point of main() invokes the
\* exit-only shutdown sequence: it never ends the process uncaught.
C7_InterruptShutsDown == exc # "KeyboardInterrupt"

\* C8: when the configuration fails to load, the process exits with a
\* non-zero status and no hardware has been armed: neither a button's edge
\* detection nor the halt input is registered.
C8_NothingArmedOnConfigError == proc = "exit2" => armed = {}

\* The startup order that C9 states.
StartupOrder ==
  <<"configure_GPIO", "load_config", "DisplayManager", "PlayerManager",
    "RadioManager", "ready", "settle", "halt_armed", "play_radio">>

Traced(step) == \E k \in DOMAIN trace : trace[k] = step

\* C9: startup goes: edge detection, configuration, display and player
\* ports, playback state machine, readiness signal, settle delay, halt
\* input, first play.  The halt input is never armed before the playback
\* state machine exists and the first play never precedes the readiness
\* signal.
C9_StartupOrder ==
  /\ IsPrefix(trace, StartupOrder)
  /\ HALT_PIN \in armed => (radioManager /\ Traced("settle"))
  /\ radioManager => (displayManager /\ playerManager /\ configLoader)
  /\ configLoader => Traced("configure_GPIO")
  /\ Traced("play_radio") => Traced("ready")

C9_Witness == trace = StartupOrder /\ HALT_PIN \in armed

LoopStarted == Traced("play_radio")

LoopEnded == LoopStarted /\ (mainPc \notin LoopPcs \/ proc # "running")

HoldsSnapshot(r) == runs[r].st = "active" /\ Did(r, "readvol")

\* C11: the pair given to save_settings is the playback state of one single
\* instant: from the read of the volume on, through the read of the station
\* index and until the run is over, no button handler changes the volume or
\* the station (a change there is either torn into the pair or lost).
C11_SettledSnapshot ==
  [][(\E r \in DOMAIN runs : HoldsSnapshot(r)) => UNCHANGED radioV]_vars


\* A volume-up callback returns having taken the gesture branch with the
\* address lookup failing.
GestureLookupFails ==
  /\ gpioPc = "volume_up_callback"
  /\ gpioPc' = "idle"
  /\ last'.h = "volume_up"
  /\ last'.route = "gesture"
  /\ ~last'.lookupOk

\* C12: when a volume-up event is the gesture and the address lookup
\* fails, the failure is swallowed: no display request is sent, no error
\* leaves the handler, volume_up() is not called and the volume and the
\* station are unchanged.
C12_LookupFailureSwallowed ==
  [][GestureLookupFails =>
       /\ ~last'.shown
       /\ UNCHANGED <<volume, station, proc, exc, terminated>>]_vars

C12_Witness ==
  /\ last.h = "volume_up"
  /\ last.route = "gesture"
  /\ last.within
  /\ ~last.lookupOk
  /\ ~last.shown
  /\ displayManager
  /\ radioManager
  /\ volume < MaxVolume
  /\ gpioPc = "idle"


\* C13: every volume-down event records the current time in ip_timer and
\* calls volume_down() once, whatever the state (the first half of a
\* gesture included).
C13_VolumeDownAlways ==
  last.h = "volume_down" => (ip_timer = now /\ last.route = "volume_down")

\* A volume-up callback returns.
VolumeUpReturns == gpioPc = "volume_up_callback" /\ gpioPc' = "idle"

\* C14: ip_timer is written by the volume-down handler only, with the time
\* it read; every other step, volume-up included, leaves it unchanged, so
\* every volume-up less than W after the volume-down is the gesture, however
\* many came before it.
C14_TimestampFrame ==
  [][/\ ip_timer' # ip_timer =>
          (gpioPc = "volume_down_callback" /\ gpioPc' = "idle" /\ ip_timer' = now')
     /\ VolumeUpReturns => ip_timer' = ip_timer
     /\ (VolumeUpReturns /\ lastDown # -1 /\ now' - lastDown < W) =>
          last'.route = "gesture"]_vars

\* A gesture has been handled and a further volume-up is in flight, the
\* volume-down still less than W old.
C14_Witness ==
  /\ last.h = "volume_up"
  /\ last.route = "gesture"
  /\ last.within
  /\ gpioPc = "volume_up_callback"
  /\ ip_timer = lastDown
  /\ now - ip_timer < W

\* C15: each next event results in one call of next() and each previous
\* event in one call of previous(), whatever happened before.
C15_NavigationAlways ==
  last.h \in {"next", "previous"} => last.route = last.h

ButtonCallbacks ==
  {"volume_up_callback", "volume_down_callback", "next_radio_callback",
   "previous_radio_callback"}

\* C16: whenever a button callback runs, radioManager and displayManager
\* have been constructed.
C16_ManagersExist ==
  gpioPc \in ButtonCallbacks => (radioManager /\ displayManager)

\* A step of the foreground loop.
LoopTick == mainPc \in LoopPcs /\ mainPc' \in LoopPcs /\ mainPc' # mainPc

\* A button callback returns having applied an operation of the playback
\* state machine or sent a request to the display.
HandlerApplies ==
  /\ gpioPc \in ButtonCallbacks
  /\ gpioPc' = "idle"
  /\ last'.route # "raised"
  /\ last'.route = "gesture" => last'.shown

\* C17: once the display terminate request has been issued, the foreground
\* loop makes no further check_radio_info()/update_player() call and no
\* button handler applies an operation or sends a display request.
C17_NothingAfterTerminate ==
  [][terminated >= 1 => (~LoopTick /\ ~HandlerApplies)]_vars

====
